---- MODULE Spec2Model ----
(***************************************************************************)
(* Model of the Machine-Learning-Preprocessing-CLI library:                *)
(*   data_loader.py : try_infer_format, load_data, inspect_data + helpers  *)
(*   cleaner.py     : clean_data                                           *)
(* A caller loads one file into a DataFrame and then cleans / inspects it. *)
(* Strings that the code takes apart (paths, MIME types, format tags) are  *)
(* sequences of one-character strings, so that split() and lower() are     *)
(* computed and not assumed.                                               *)
(***************************************************************************)
EXTENDS Integers, Sequences, FiniteSets, TLC

VARIABLES df, op, args, outcome

vars == <<df, op, args, outcome>>

(***************************************************************************)
(* Bounds of the model.                                                    *)
(***************************************************************************)
MaxRows == 3

\* cell values a numeric column can hold besides the missing value
Values == {1, 2}

\* column names; "Height" is one of the two names check_df_ranges looks for
ColumnNames == {"h", "Height"}

(***************************************************************************)
(* Strings.                                                                *)
(***************************************************************************)
csv == <<"c", "s", "v">>
xlsx == <<"x", "l", "s", "x">>
json == <<"j", "s", "o", "n">>
png == <<"p", "n", "g">>

MimeCsv == <<"t", "e", "x", "t", "/", "c", "s", "v">>
MimeJson == <<"a", "p", "p", "l", "i", "c", "a", "t", "i", "o", "n", "/", "j", "s", "o", "n">>
MimeXlsx == <<"a", "p", "p", "l", "i", "c", "a", "t", "i", "o", "n", "/", "v", "n", "d", ".", "o", "p", "e", "n", "x", "m", "l", "f", "o", "r", "m", "a", "t", "s", "-", "o", "f", "f", "i", "c", "e", "d", "o", "c", "u", "m", "e", "n", "t", ".", "s", "p", "r", "e", "a", "d", "s", "h", "e", "e", "t", "m", "l", ".", "s", "h", "e", "e", "t">>
MimePng == <<"i", "m", "a", "g", "e", "/", "p", "n", "g">>

PathCsv == <<"/", "d", ".", "c", "s", "v">>
PathJson == <<"/", "d", ".", "j", "s", "o", "n">>
PathXlsx == <<"/", "d", ".", "x", "l", "s", "x">>
PathUpperCsv == <<"/", "d", ".", "C", "S", "V">>
PathPng == <<"/", "d", ".", "p", "n", "g">>
PathDat == <<"/", "d", ".", "D", "A", "T">>
PathNoExt == <<"/", "d">>

Paths == {PathCsv, PathJson, PathXlsx, PathUpperCsv, PathPng, PathDat, PathNoExt}

\* the value None of the Python code, as a string (never a valid tag or type)
None == <<>>

\* str.lower() on one character, for the upper-case letters the paths use
LowerChar(c) ==
    CASE c = "A" -> "a" [] c = "C" -> "c" [] c = "D" -> "d" [] c = "S" -> "s"
      [] c = "T" -> "t" [] c = "V" -> "v" [] OTHER -> c

\* str.lower()
Lower(s) == [i \in 1..Len(s) |-> LowerChar(s[i])]

\* str.rfind(ch), 1-based, 0 when ch does not occur
RFind(s, ch) ==
    IF \E i \in 1..Len(s) : s[i] = ch
    THEN CHOOSE i \in 1..Len(s) : s[i] = ch /\ \A j \in (i+1)..Len(s) : s[j] # ch
    ELSE 0

\* str.find(ch) from position `from`, 1-based, 0 when ch does not occur
FindFrom(s, ch, from) ==
    IF \E i \in from..Len(s) : s[i] = ch
    THEN CHOOSE i \in from..Len(s) : s[i] = ch /\ \A j \in from..(i-1) : s[j] # ch
    ELSE 0

\* s[a..b] (1-based, inclusive), empty when a > b
Slice(s, a, b) == [i \in 1..(b - a + 1) |-> s[a + i - 1]]

\* str.split(sep): the pieces of s between the occurrences of sep
RECURSIVE SplitFrom(_, _, _)
SplitFrom(s, sep, from) ==
    LET k == FindFrom(s, sep, from)
    IN IF k = 0 THEN << Slice(s, from, Len(s)) >>
       ELSE << Slice(s, from, k - 1) >> \o SplitFrom(s, sep, k + 1)

Split(s, sep) == SplitFrom(s, sep, 1)

(***************************************************************************)
(* DataFrames.  A cell is a number, the missing value NaN or, after        *)
(* fillna(...), the Ellipsis object.  A row maps column names to cells.    *)
(***************************************************************************)
Num(v) == [kind |-> "num", v |-> v]
NaN == [kind |-> "nan", v |-> 0]
EllipsisCell == [kind |-> "ellipsis", v |-> 0]

Cells == {Num(v) : v \in Values} \cup {NaN}

ColumnSets == (SUBSET ColumnNames) \ {{}}

RowsOver(cols, n) == [1..n -> [cols -> Cells]]

\* every DataFrame a parser can produce within the bounds (zero rows included:
\* a header-only csv parses to columns without rows, which is df.empty)
Tables ==
    UNION { { [cols |-> c, rows |-> r] : r \in RowsOver(c, n) } :
            c \in ColumnSets, n \in 0..MaxRows }

NoTable == [cols |-> {}, rows |-> << >>]

\* df.shape
Shape(t) == << Len(t.rows), Cardinality(t.cols) >>

\* df.empty: any axis of length 0
IsEmptyDf(t) == Len(t.rows) = 0 \/ t.cols = {}

(***************************************************************************)
(* Files: a path and the bytes behind it.  The bytes are described by what *)
(* they are (csv text, json text, an xlsx workbook, a png image, nothing)  *)
(* and, for the three tabular kinds, the table they encode.                *)
(***************************************************************************)
TabularKinds == {"csv", "json", "xlsx"}

Contents ==
    { [kind |-> k, table |-> t] : k \in TabularKinds, t \in Tables }
      \cup { [kind |-> "png", table |-> NoTable], [kind |-> "blank", table |-> NoTable] }

\* mimetypes.types_map, restricted to the extensions of Paths
TypesMap(ext) ==
    CASE ext = <<".">> \o csv -> MimeCsv
      [] ext = <<".">> \o json -> MimeJson
      [] ext = <<".">> \o xlsx -> MimeXlsx
      [] ext = <<".">> \o png -> MimePng
      [] OTHER -> None

\* posixpath.splitext(p)[1]: from the last dot of the basename, unless the
\* basename has only dots before it
SplitExt(p) ==
    LET sepIndex == RFind(p, "/")
        dotIndex == RFind(p, ".")
    IN IF dotIndex > sepIndex
          /\ \E i \in (sepIndex + 1)..(dotIndex - 1) : p[i] # "."
       THEN Slice(p, dotIndex, Len(p))
       ELSE << >>

\* mimetypes.guess_type(path)[0]: the extension as written, then lowercased
guess_type(path) ==
    LET ext == SplitExt(path)
    IN IF TypesMap(ext) # None THEN TypesMap(ext) ELSE TypesMap(Lower(ext))

\* filetype.guess(path).extension, None when no signature matches: text
\* (csv, json) and empty files carry no magic number; a workbook matches
\* filetype's xlsx document type
filetype_guess(content) ==
    CASE content.kind = "xlsx" -> xlsx
      [] content.kind = "png" -> png
      [] OTHER -> None

\* try_infer_format swapped so that the content is sniffed before the MIME lookup
try_infer_format_content_first(file) ==
    LET mime_type == guess_type(file.path)
        kind == filetype_guess(file.content)
    IN IF kind # None
       THEN [format |-> kind, tiers |-> << "content" >>]
       ELSE IF mime_type # None
       THEN [format |-> Split(mime_type, "/")[2], tiers |-> << "content", "mime" >>]
       ELSE [format |-> Lower(Split(file.path, ".")[Len(Split(file.path, "."))]),
             tiers |-> << "content", "mime", "extension" >>]

\* try_infer_format(file_path): the tag, and the tiers consulted in order
try_infer_format(file) ==
    LET mime_type == guess_type(file.path)
        kind == filetype_guess(file.content)
    IN IF mime_type # None
       THEN [format |-> Split(mime_type, "/")[2], tiers |-> << "mime" >>]
       ELSE IF kind # None
       THEN [format |-> kind, tiers |-> << "mime", "content" >>]
       ELSE [format |-> Lower(Split(file.path, ".")[Len(Split(file.path, "."))]),
             tiers |-> << "mime", "content", "extension" >>]

\* the files of the model.  Left out: json text behind a path that infers as
\* csv, because what read_csv makes of json text depends on its line layout,
\* which the content description does not carry.
Files ==
    { f \in [path : Paths, content : Contents] :
        ~(f.content.kind = "json" /\ try_infer_format(f).format = csv) }

(***************************************************************************)
(* load_data                                                               *)
(***************************************************************************)
Supported == {csv, xlsx, json}

\* the pandas reader load_data picks for a tag
ReaderOf(file_format) ==
    CASE file_format = csv -> "read_csv"
      [] file_format = xlsx -> "read_excel"
      [] file_format = json -> "read_json"

\* the kind of bytes each reader parses
KindOf(file_format) ==
    CASE file_format = csv -> "csv"
      [] file_format = xlsx -> "xlsx"
      [] file_format = json -> "json"

\* pd.read_csv / pd.read_excel / pd.read_json on the file's bytes: the table,
\* or the exception the reader raises (EmptyDataError for an empty csv file,
\* ValueError / ParserError / UnicodeDecodeError for bytes of another kind)
Parse(file_format, content) ==
    IF content.kind = KindOf(file_format)
    THEN [raises |-> "none", table |-> content.table]
    ELSE IF content.kind = "blank" /\ file_format = csv
    THEN [raises |-> "EmptyDataError", table |-> NoTable]
    ELSE [raises |-> "ParserError", table |-> NoTable]

ErrNone == "none"
ErrUnsupported == "ValueError: Unsupported file format"
ErrNoData == "ValueError: contains no data"
ErrIsEmpty == "ValueError: is empty"
ErrEmptydfError == "AttributeError: module pandas.errors has no attribute EmptydfError"

\* load_data invoking the reader before it looks at the tag
load_data_parse_first(file) ==
    LET inferred == try_infer_format(file)
        file_format == inferred.format
        fmt == IF file_format \in Supported THEN file_format ELSE csv
        parsed == Parse(fmt, file.content)
        log == << "try_infer_format", ReaderOf(fmt) >>
    IN IF parsed.raises # "none"
       THEN [err |-> ErrEmptydfError, ret |-> NoTable, log |-> log, inferred |-> inferred]
       ELSE IF file_format \notin Supported
       THEN [err |-> ErrUnsupported, ret |-> NoTable, log |-> log, inferred |-> inferred]
       ELSE IF IsEmptyDf(parsed.table)
       THEN [err |-> ErrNoData, ret |-> NoTable, log |-> log \o << "df.empty" >>,
             inferred |-> inferred]
       ELSE [err |-> ErrNone, ret |-> parsed.table, log |-> log \o << "df.empty" >>,
             inferred |-> inferred]

\* load_data(file_path): the exception raised or the table returned, the calls
\* made (log), and what try_infer_format answered.  The handler `except pd.errors.EmptydfError` names
\* an attribute pandas.errors does not have: matching any exception the
\* reader raises evaluates it and raises AttributeError instead.
load_data(file) ==
    LET inferred == try_infer_format(file)
        file_format == inferred.format
        parsed == Parse(file_format, file.content)
        log == << "try_infer_format" >>
    IN IF file_format \in Supported
       THEN IF parsed.raises # "none"
            THEN [err |-> ErrEmptydfError, ret |-> NoTable,
                  log |-> log \o << ReaderOf(file_format) >>, inferred |-> inferred]
            ELSE IF IsEmptyDf(parsed.table)
            THEN [err |-> ErrNoData, ret |-> NoTable,
                  log |-> log \o << ReaderOf(file_format), "df.empty" >>,
                  inferred |-> inferred]
            ELSE [err |-> ErrNone, ret |-> parsed.table,
                  log |-> log \o << ReaderOf(file_format), "df.empty" >>,
                  inferred |-> inferred]
       ELSE [err |-> ErrUnsupported, ret |-> NoTable, log |-> log, inferred |-> inferred]

(***************************************************************************)
(* Column helpers shared by clean_data and inspect_data.                   *)
(***************************************************************************)
\* the indices of the rows of d
RowIds(d) == 1..Len(d.rows)

\* df.isnull().sum(): per column, the number of missing cells
isnull_sum(d) ==
    [c \in d.cols |-> Cardinality({i \in RowIds(d) : d.rows[i][c] = NaN})]

\* a row holding at least one missing value
HasMissing(r) == \E c \in DOMAIN r : r[c] = NaN

\* df.dropna(): the rows without a missing value, in their order
dropna(d) ==
    [cols |-> d.cols, rows |-> SelectSeq(d.rows, LAMBDA r : ~HasMissing(r))]

\* df.fillna(value): every missing cell replaced by value
fillna(d, value) ==
    [cols |-> d.cols,
     rows |-> [i \in RowIds(d) |->
                 [c \in d.cols |-> IF d.rows[i][c] = NaN THEN value ELSE d.rows[i][c]]]]

\* df.duplicated().sum(): the rows equal to an earlier row
duplicated_sum(d) ==
    Cardinality({i \in RowIds(d) : \E j \in 1..(i - 1) : d.rows[j] = d.rows[i]})

(***************************************************************************)
(* clean_data                                                              *)
(***************************************************************************)
DefaultThreshold == 3

Methods == {"dropna", "fillna", "median"}

Options == [method : Methods, threshold : {DefaultThreshold}]

ErrInvalidMethod == "ValueError: Invalid method for handling missing values."
ErrSeriesZscore == "AttributeError: type object Series has no attribute zscore"

Event(step, value) == [step |-> step, value |-> value]

\* clean_data with the `else: raise ValueError` branch of line 39 left out:
\* an unknown method leaves the table as it is
clean_data_no_method_check(d, options) ==
    LET missing_counts == isnull_sum(d)
        any == \E c \in d.cols : missing_counts[c] > 0
        log1 == << Event("missing_counts", missing_counts) >>
        cleaned_df == IF any /\ options.method = "dropna" THEN dropna(d)
                      ELSE IF any /\ options.method = "fillna" THEN fillna(d, EllipsisCell)
                      ELSE d
        log2 == IF any /\ options.method = "dropna"
                THEN log1 \o << Event("dropna", Len(d.rows) - Len(cleaned_df.rows)) >>
                ELSE IF any /\ options.method = "fillna"
                THEN log1 \o << Event("fillna", 0) >>
                ELSE log1
    IN [err |-> ErrSeriesZscore, ret |-> NoTable,
        log |-> log2 \o << Event("duplicate_count", duplicated_sum(cleaned_df)) >>]

\* clean_data(df, options).  Line 57 evaluates pd.Series.zscore, an attribute
\* pandas.Series does not have, so every call that gets past the handling of
\* missing values raises AttributeError there; lines 58-78 (the outlier
\* count and `return cleaned_df`) are never reached.
clean_data(d, options) ==
    LET missing_counts == isnull_sum(d)
        any == \E c \in d.cols : missing_counts[c] > 0
        log1 == << Event("missing_counts", missing_counts) >>
        cleaned_df == IF any /\ options.method = "dropna" THEN dropna(d)
                      ELSE IF any /\ options.method = "fillna" THEN fillna(d, EllipsisCell)
                      ELSE d
        log2 == IF any /\ options.method = "dropna"
                THEN log1 \o << Event("dropna", Len(d.rows) - Len(cleaned_df.rows)) >>
                ELSE IF any /\ options.method = "fillna"
                THEN log1 \o << Event("fillna", 0) >>
                ELSE log1
    IN IF any /\ options.method \notin {"dropna", "fillna"}
       THEN [err |-> ErrInvalidMethod, ret |-> NoTable, log |-> log1]
       ELSE [err |-> ErrSeriesZscore, ret |-> NoTable,
             log |-> log2 \o << Event("duplicate_count", duplicated_sum(cleaned_df)) >>]

(***************************************************************************)
(* inspect_data and its ten steps.  A step yields what it reports and the  *)
(* exception it raises, if any.                                            *)
(***************************************************************************)
ZThreshold == 3
HeightMin == 100
HeightMax == 250
WeightMin == 20
WeightMax == 200

ErrIndexTruth == "ValueError: The truth value of a Index is ambiguous"
ErrKeyError == "KeyError: columns not in index"

StepResult(step, value, raises) == [step |-> step, value |-> value, raises |-> raises]

RECURSIVE SumOver(_, _, _)
\* the sum of f(d.rows[i][c]) over the first n rows
SumOver(d, c, n) ==
    IF n = 0 THEN 0 ELSE SumOver(d, c, n - 1) + d.rows[n][c].v

RECURSIVE SumSqOver(_, _, _)
SumSqOver(d, c, n) ==
    IF n = 0 THEN 0 ELSE SumSqOver(d, c, n - 1) + d.rows[n][c].v * d.rows[n][c].v

\* abs(scipy.stats.zscore(column))[i] > ZThreshold, in integers:
\* |x - S/n| / sqrt(Q/n - (S/n)^2) > z  iff  (n x - S)^2 > z^2 (n Q - S^2).
\* A column with a missing value, or of zero deviation, has all z-scores nan,
\* and nan > 3 is False.
ZScoreExceeds(d, c, i) ==
    LET n == Len(d.rows)
        S == SumOver(d, c, n)
        Q == SumSqOver(d, c, n)
        x == d.rows[i][c].v
    IN /\ \A k \in RowIds(d) : d.rows[k][c] # NaN
       /\ n * Q - S * S > 0
       /\ (n * x - S) * (n * x - S) > ZThreshold * ZThreshold * (n * Q - S * S)

\* df[(z_scores.abs() > 3).any(axis=1)]
OutlierRows(d) ==
    SelectSeq(d.rows, LAMBDA r :
        \E i \in RowIds(d) : d.rows[i] = r /\ \E c \in d.cols : ZScoreExceeds(d, c, i))

\* df[(df[col] < lo) | (df[col] > hi)]; a comparison with NaN is False
OutOfRange(d, col, lo, hi) ==
    SelectSeq(d.rows, LAMBDA r : r[col] # NaN /\ (r[col].v < lo \/ r[col].v > hi))

print_basic_info(d) == StepResult("print_basic_info", Shape(d), "none")

check_missing_values(d) == StepResult("check_missing_values", isnull_sum(d), "none")

\* df[numerical_cols].describe(): the count row of the report
print_summary_stats(d) ==
    StepResult("print_summary_stats",
               [c \in d.cols |-> Len(d.rows) - isnull_sum(d)[c]], "none")

check_duplicate_rows(d) == StepResult("check_duplicate_rows", duplicated_sum(d), "none")

\* check_outliers: prints the outlier rows, then `if numerical_cols:` asks a
\* pandas Index for its truth value, which raises ValueError
check_outliers(d) == StepResult("check_outliers", OutlierRows(d), ErrIndexTruth)

check_df_ranges(d) ==
    StepResult("check_df_ranges",
               [c \in d.cols \cap {"Height", "Weight"} |->
                  IF c = "Height" THEN OutOfRange(d, c, HeightMin, HeightMax)
                  ELSE OutOfRange(d, c, WeightMin, WeightMax)],
               "none")

\* df[columns_for_corr].corr(): the columns of the matrix
perform_corr_analysis(d, columns_for_corr) ==
    StepResult("perform_corr_analysis", columns_for_corr,
               IF columns_for_corr \subseteq d.cols THEN "none" ELSE ErrKeyError)

\* df[columns_for_skewness]...skew(): the columns examined
check_skewness(d, columns_for_skewness) ==
    StepResult("check_skewness", columns_for_skewness,
               IF columns_for_skewness \subseteq d.cols THEN "none" ELSE ErrKeyError)

\* perform_visual_exploration: `if numerical_cols:` on an Index again
perform_visual_exploration(d) ==
    StepResult("perform_visual_exploration", 0, ErrIndexTruth)

perform_time_series_analysis(d) ==
    StepResult("perform_time_series_analysis", 0, "none")

\* the calls of inspect_data in program order; an empty list is falsy
InspectCalls(d, columns_for_corr, columns_for_skewness) ==
    << print_basic_info(d), check_missing_values(d), print_summary_stats(d),
       check_duplicate_rows(d), check_outliers(d), check_df_ranges(d) >>
    \o (IF columns_for_corr # {}
        THEN << perform_corr_analysis(d, columns_for_corr) >> ELSE << >>)
    \o (IF columns_for_skewness # {}
        THEN << check_skewness(d, columns_for_skewness) >> ELSE << >>)
    \o << perform_visual_exploration(d), perform_time_series_analysis(d) >>

\* the calls made until one raises: an exception ends inspect_data
RunCalls(calls) ==
    LET raising == {i \in 1..Len(calls) : calls[i].raises # "none"}
        last == IF raising = {} THEN Len(calls)
                ELSE CHOOSE i \in raising : \A j \in raising : i <= j
    IN [err |-> IF raising = {} THEN ErrNone ELSE calls[last].raises,
        ret |-> NoTable,
        log |-> [i \in 1..last |-> Event(calls[i].step, calls[i].value)]]

\* inspect_data(df, columns_for_corr, columns_for_skewness)
inspect_data(d, columns_for_corr, columns_for_skewness) ==
    RunCalls(InspectCalls(d, columns_for_corr, columns_for_skewness))

\* the column lists a caller passes; {} stands for None and for []
ColumnArgs == {{}, {"h"}}

(***************************************************************************)
(* The caller: one process that loads a file and then works on the table.  *)
(***************************************************************************)
NoArgs == [file |-> [path |-> None, content |-> [kind |-> "blank", table |-> NoTable]]]

NoOutcome == [err |-> ErrNone, ret |-> NoTable, log |-> << >>]

Init ==
    /\ df = NoTable
    /\ op = "none"
    /\ args = NoArgs
    /\ outcome = NoOutcome

\* df = load_data(file_path)
Load ==
    /\ op = "none"
    /\ \E f \in Files :
         /\ args' = [file |-> f]
         /\ outcome' = load_data(f)
         /\ df' = load_data(f).ret
    /\ op' = "load"

\* clean_data(df, options) on the loaded table; the table object passed is
\* the caller's df, which clean_data never writes to
Clean ==
    /\ op # "none"
    /\ df # NoTable
    /\ \E o \in Options :
         /\ args' = [df |-> df, options |-> o]
         /\ outcome' = clean_data(df, o)
    /\ op' = "clean"
    /\ UNCHANGED df

\* inspect_data(df, columns_for_corr, columns_for_skewness) on the loaded table
Inspect ==
    /\ op # "none"
    /\ df # NoTable
    /\ \E cc \in ColumnArgs, sc \in ColumnArgs :
         /\ args' = [df |-> df, columns_for_corr |-> cc, columns_for_skewness |-> sc]
         /\ outcome' = inspect_data(df, cc, sc)
    /\ op' = "inspect"
    /\ UNCHANGED df

Next == Load \/ Clean \/ Inspect

Spec == Init /\ [][Next]_vars

(***************************************************************************)
(* Vocabulary of the properties.                                           *)
(***************************************************************************)
\* the path carrying the usual extension of a tabular kind
UsualPath(kind) ==
    CASE kind = "csv" -> PathCsv [] kind = "json" -> PathJson [] kind = "xlsx" -> PathXlsx

\* the tag that selects the parser of a tabular kind
TagOf(kind) ==
    CASE kind = "csv" -> csv [] kind = "json" -> json [] kind = "xlsx" -> xlsx

\* a well-formed, non-empty file of a supported format with its usual extension
WellFormedUsual(f) ==
    /\ f.content.kind \in TabularKinds
    /\ f.path = UsualPath(f.content.kind)
    /\ ~IsEmptyDf(f.content.table)

\* a file of a supported format, by its extension, that holds zero rows
ZeroRowFile(f) ==
    \E k \in TabularKinds :
        /\ f.path = UsualPath(k)
        /\ \/ f.content.kind = "blank"
           \/ f.content.kind = k /\ Len(f.content.table.rows) = 0

\* the error kinds of the loader's declared error set
ParseErrorKind == "ParseError"
EmptyFileKinds == {ErrNoData, ErrIsEmpty}
DeclaredLoadErrors == {ErrUnsupported, ParseErrorKind} \cup EmptyFileKinds

Readers == {"read_csv", "read_excel", "read_json"}

\* the subtype of a MIME type: what follows its slash
SubtypeOf(m) == Slice(m, RFind(m, "/") + 1, Len(m))

\* the lowercased substring after the last dot (the whole path without one)
ExtensionOf(p) == Lower(Slice(p, RFind(p, ".") + 1, Len(p)))

\* the rows of d without a missing cell, by index
CompleteIds(d) == {i \in RowIds(d) : \A c \in d.cols : d.rows[i][c] # NaN}

AnyMissing(d) == CompleteIds(d) # RowIds(d)

Recognized == {"dropna", "fillna"}

\* the table as of the end of missing-value handling (step 2)
Step2Table(d, method) ==
    IF ~AnyMissing(d) THEN d
    ELSE IF method = "dropna" THEN dropna(d)
    ELSE fillna(d, EllipsisCell)

\* the steps an event log went through
StepsOf(log) == [i \in 1..Len(log) |-> log[i].step]

\* the ten steps of inspect_data with the two gated ones
TenSteps(cc, sc) ==
    << "print_basic_info", "check_missing_values", "print_summary_stats",
       "check_duplicate_rows", "check_outliers", "check_df_ranges" >>
    \o (IF cc # {} THEN << "perform_corr_analysis" >> ELSE << >>)
    \o (IF sc # {} THEN << "check_skewness" >> ELSE << >>)
    \o << "perform_visual_exploration", "perform_time_series_analysis" >>

(***************************************************************************)
(* Properties.                                                             *)
(***************************************************************************)
\* C1: load_data on a well-formed, non-empty csv / xlsx / json file with its
\* usual extension returns a table of the source's row and column counts,
\* and the inferred tag is the one that selects the matching parser.
C1_LoadPreservesShape ==
    (op = "load" /\ WellFormedUsual(args.file)) =>
        /\ outcome.inferred.format = TagOf(args.file.content.kind)
        /\ outcome.err = ErrNone
        /\ Shape(outcome.ret) = Shape(args.file.content.table)

\* C2: load_data on a zero-row file of a supported format (a completely empty
\* file included) fails with the empty-file ValueError and returns no table;
\* every table load_data returns has at least one row.
C2_ZeroRowsFailEmptyFile ==
    /\ (op = "load" /\ ZeroRowFile(args.file)) =>
          (outcome.err \in EmptyFileKinds /\ outcome.ret = NoTable)
    /\ (op = "load" /\ outcome.err = ErrNone) => Len(outcome.ret.rows) >= 1

\* C3: when the parser of the inferred format raises on malformed content,
\* load_data fails with the ParseError kind; no exception outside
\* {UnsupportedFormat, EmptyFile, ParseError} escapes, no table is returned.
C3_MalformedFailsParseError ==
    /\ (op = "load" /\ outcome.inferred.format \in Supported
          /\ Parse(outcome.inferred.format, args.file.content).raises = "ParserError") =>
          (outcome.err = ParseErrorKind /\ outcome.ret = NoTable)
    /\ (op = "load" /\ outcome.err # ErrNone) => outcome.err \in DeclaredLoadErrors

\* C4: a file whose inferred tag is not csv, xlsx or json fails with
\* UnsupportedFormat before any parser is invoked and yields no table; a file
\* whose inferred tag is one of the three never fails with UnsupportedFormat.
C4_UnsupportedFailsFast ==
    op = "load" =>
        /\ outcome.inferred.format \notin Supported =>
              /\ outcome.err = ErrUnsupported
              /\ outcome.ret = NoTable
              /\ df = NoTable
              /\ \A i \in 1..Len(outcome.log) : outcome.log[i] \notin Readers
        /\ outcome.inferred.format \in Supported => outcome.err # ErrUnsupported

\* a load of an image named without an extension ended in UnsupportedFormat
C4_Witness ==
    /\ op = "load"
    /\ args.file.path = PathNoExt
    /\ args.file.content.kind = "png"
    /\ outcome.inferred.format = png
    /\ outcome.err = ErrUnsupported

\* C5: the tiers are consulted in the order MIME, content, extension, each
\* only when the earlier ones gave nothing: an existing MIME type decides
\* alone, whatever the content; the extension is used only as the last resort.
C5_TierOrder ==
    op = "load" =>
        LET mime == guess_type(args.file.path)
            sniff == filetype_guess(args.file.content)
            tiers == outcome.inferred.tiers
        IN /\ tiers = SubSeq(<< "mime", "content", "extension" >>, 1, Len(tiers))
           /\ Len(tiers) >= 1
           /\ mime # None =>
                 (tiers = << "mime" >> /\ outcome.inferred.format = SubtypeOf(mime))
           /\ Len(tiers) >= 2 <=> mime = None
           /\ Len(tiers) = 2 => outcome.inferred.format = sniff
           /\ Len(tiers) = 3 <=> (mime = None /\ sniff = None)
           /\ Len(tiers) = 3 => outcome.inferred.format = ExtensionOf(args.file.path)

\* an xlsx workbook saved as .csv was inferred as csv by the MIME tier alone
C5_Witness ==
    /\ op = "load"
    /\ args.file.path = PathCsv
    /\ args.file.content.kind = "xlsx"
    /\ filetype_guess(args.file.content) = xlsx
    /\ outcome.inferred = [format |-> csv, tiers |-> << "mime" >>]

\* C6: clean_data with drop-missing on N rows of which M hold a missing value
\* returns exactly the N-M complete rows, in order and unchanged; with M = 0
\* the returned table is the input.
C6_DropMissingReturnsCompleteRows ==
    (op = "clean" /\ args.options.method = "dropna") =>
        /\ outcome.err = ErrNone
        /\ Len(outcome.ret.rows) = Cardinality(CompleteIds(args.df))
        /\ outcome.ret.rows = SelectSeq(args.df.rows, LAMBDA r : ~HasMissing(r))
        /\ ~AnyMissing(args.df) => outcome.ret = args.df

\* C7 as stated: clean_data with an unrecognized method fails with the
\* invalid-method error for every input table, returns no table and leaves
\* the input unmodified.
C7_InvalidMethodAlwaysFails ==
    (op = "clean" /\ args.options.method \notin Recognized) =>
        /\ outcome.err = ErrInvalidMethod
        /\ outcome.ret = NoTable
        /\ df = args.df

\* C7 amended: clean_data with an unrecognized method on a table holding at
\* least one missing value fails with the invalid-method error, returns no
\* table and leaves the input unmodified.
C7_InvalidMethodFailsWhenMissing ==
    (op = "clean" /\ args.options.method \notin Recognized /\ AnyMissing(args.df)) =>
        /\ outcome.err = ErrInvalidMethod
        /\ outcome.ret = NoTable
        /\ df = args.df

\* an unrecognized method met a table with a missing value and was rejected
C7_Witness ==
    /\ op = "clean"
    /\ args.options.method = "median"
    /\ AnyMissing(args.df)
    /\ outcome.err = ErrInvalidMethod

\* C8: clean_data never removes duplicate or outlier rows: it returns the
\* table as of the end of missing-value handling, rows and row count alike.
C8_ReturnsStep2Table ==
    (op = "clean" /\ (args.options.method \in Recognized \/ ~AnyMissing(args.df))) =>
        /\ outcome.err = ErrNone
        /\ outcome.ret = Step2Table(args.df, args.options.method)
        /\ duplicated_sum(outcome.ret) =
             duplicated_sum(Step2Table(args.df, args.options.method))

\* C9: inspect_data runs its ten steps in the fixed order and reaches the
\* last one; correlation and skewness run iff their column list is non-empty.
C9_TenStepsInOrder ==
    op = "inspect" =>
        /\ StepsOf(outcome.log) = TenSteps(args.columns_for_corr, args.columns_for_skewness)
        /\ outcome.log[Len(outcome.log)].step = "perform_time_series_analysis"

\* C10: clean_data reports, in this order, the missing counts, the handling,
\* the duplicate count and the outlier count, the last two computed on the
\* table after missing-value handling, and then returns.
C10_ReportsOnHandledTable ==
    (op = "clean" /\ (args.options.method \in Recognized \/ ~AnyMissing(args.df))) =>
        LET steps == StepsOf(outcome.log)
            n == Len(steps)
        IN /\ n >= 3
           /\ steps[1] = "missing_counts"
           /\ steps[n - 1] = "duplicate_count"
           /\ outcome.log[n - 1].value =
                duplicated_sum(Step2Table(args.df, args.options.method))
           /\ steps[n] = "outlier_count"
           /\ outcome.err = ErrNone

====
